---- MODULE Spec2Model ----
(***************************************************************************)
(* A model of the gortmp client (client.go): the send loop, the receive    *)
(* loop, the dispatch loop, the two bounded queues and the disconnect      *)
(* sequence.  Goroutines are interleaved at the granularity of their       *)
(* accesses to shared state; every I/O call is a step of its own.          *)
(***************************************************************************)
EXTENDS Integers, Sequences, FiniteSets, TLC

(* ------------------------------------------------------------------ *)
(* Program constants                                                   *)
(* ------------------------------------------------------------------ *)
TIMESTAMP_EXTENDED == 16777215
CHUNK_STREAM_ID_PROTOCOL == 2
CHUNK_STREAM_ID_COMMAND == 3
CHUNK_STREAM_ID_USER_CONTROL == 4
HEADER_FORMAT_FULL == 0
HEADER_FORMAT_SAME_STREAM == 1
HEADER_FORMAT_SAME_LENGTH_AND_STREAM == 2
HEADER_FORMAT_CONTINUATION == 3
MESSAGE_TYPE_CHUNK_SIZE == 1
MESSAGE_TYPE_ABORT == 2
MESSAGE_TYPE_PING == 4
MESSAGE_TYPE_ACK_SIZE == 5
MESSAGE_TYPE_BANDWIDTH == 6
MESSAGE_TYPE_AUDIO == 8
MESSAGE_TYPE_AMF0 == 20
DEFAULT_CHUNK_SIZE == 128
DEFAULT_WINDOW_SIZE == 2500000
\* make(chan *Message, 100), for outMessages and for inMessages
OutQueueCap == 100
InQueueCap == 100

(* ------------------------------------------------------------------ *)
(* Bounds of the model                                                 *)
(* ------------------------------------------------------------------ *)
\* longest message of the short lengths the loopback run submits
MaxLen == 4
\* largest of the small chunk sizes the loopback run negotiates
MaxChunk == 3
\* messages the application submits in the loopback run
MaxSubmitRT == 2
\* headers the peer sends in the receive run
MaxHeaders == 4
\* largest value a peer's payload encodes
MaxVal == 1
\* headers the peer sends, and messages the application submits, in the
\* connection run
MaxHeadersConn == 3
MaxSubmitConn == 2
\* messages the application submits in the queue run: more than the queue holds
MaxSubmitQ == 103
MaxHeadersProto == 3
MaxHeadersInQ == 103

(* ------------------------------------------------------------------ *)
(* Values                                                              *)
(* ------------------------------------------------------------------ *)
Nil == [nil |-> TRUE]

Min(a, b) == IF a < b THEN a ELSE b

\* The first n elements of s, and the rest.
Take(s, n) == SubSeq(s, 1, n)
Drop(s, n) == SubSeq(s, n + 1, Len(s))

\* binary.BigEndian.Uint32 of the first four bytes of b (Len(b) >= 4).
BigEndianUint32(b) == ((b[1] * 256 + b[2]) * 256 + b[3]) * 256 + b[4]

\* The n-byte big-endian encoding of v, 0 <= v < 2^31: byte i carries
\* 256^(n-i), and the bytes above the fourth from the end are zero.
BigEndian(v, n) ==
    [i \in 1..n |-> IF n - i >= 4 THEN 0 ELSE (v \div (256 ^ (n - i))) % 256]

\* Header: the decoded form of one chunk header.
MkHeader(fmt, csid, ts, len, type, sid) ==
    [Format |-> fmt, ChunkStreamId |-> csid, Timestamp |-> ts,
     MessageLength |-> len, MessageTypeId |-> type, MessageStreamId |-> sid]

\* Message: Buffer is the payload (receive: filled so far; send: still unsent).
MkMessage(type, csid, sid, ts, abs, len, buf) ==
    [Type |-> type, ChunkStreamId |-> csid, StreamId |-> sid, Timestamp |-> ts,
     AbsoluteTimestamp |-> abs, Length |-> len, Buffer |-> buf]

\* Message.RemainingBytes: declared length minus the bytes buffered.
RemainingBytes(m) == m.Length - Len(m.Buffer)

\* Header.CalculateTimestamp: the header's timestamp, the extended one having
\* replaced the 24-bit marker at decode.
CalculateTimestamp(h) == h.Timestamp

(* ------------------------------------------------------------------ *)
(* Header codec: what Header.Write puts on the wire, what ReadHeader    *)
(* makes of it.  A header on the wire carries only the fields its       *)
(* format has; a timestamp of 0xFFFFFF or more is written as the marker *)
(* followed by the 32-bit extended timestamp.                           *)
(* ------------------------------------------------------------------ *)
HasTimestamp(fmt) == fmt # HEADER_FORMAT_CONTINUATION
HasLengthType(fmt) == fmt \in {HEADER_FORMAT_FULL, HEADER_FORMAT_SAME_STREAM}
HasStreamId(fmt) == fmt = HEADER_FORMAT_FULL

WriteHeader(h) ==
    [k |-> "H", fmt |-> h.Format, csid |-> h.ChunkStreamId,
     ts24 |-> IF ~HasTimestamp(h.Format) THEN 0
              ELSE IF h.Timestamp >= TIMESTAMP_EXTENDED THEN TIMESTAMP_EXTENDED
              ELSE h.Timestamp,
     ext |-> IF HasTimestamp(h.Format) /\ h.Timestamp >= TIMESTAMP_EXTENDED
             THEN h.Timestamp ELSE 0,
     len |-> IF HasLengthType(h.Format) THEN h.MessageLength ELSE 0,
     type |-> IF HasLengthType(h.Format) THEN h.MessageTypeId ELSE 0,
     sid |-> IF HasStreamId(h.Format) THEN h.MessageStreamId ELSE 0]

ReadHeader(w) ==
    MkHeader(w.fmt, w.csid,
             IF w.ts24 = TIMESTAMP_EXTENDED THEN w.ext ELSE w.ts24,
             w.len, w.type, w.sid)

\* One payload byte on the wire.
WireByte(b) == [k |-> "B", b |-> b]
WireBytes(bs) == [i \in 1..Len(bs) |-> WireByte(bs[i])]
IsHeaderToken(w) == w.k = "H"

\* OutboundChunkStream.NewOutboundHeader on the fresh chunk stream sendLoop
\* makes for every message: a FULL header carrying the message's fields.
NewOutboundHeader(m) ==
    MkHeader(HEADER_FORMAT_FULL, m.ChunkStreamId, m.Timestamp, m.Length,
             m.Type, m.StreamId)

\* NewInboundChunkStream: no header seen, no message in progress.
NewInboundChunkStream ==
    [lastHeader |-> Nil, lastInAbsoluteTimestamp |-> 0, currentMessage |-> Nil]

(* ------------------------------------------------------------------ *)
(* State                                                               *)
(* ------------------------------------------------------------------ *)
VARIABLES
    connected,      \* Client.connected
    closes,         \* how many times conn.Close() has run; the conn is open at 0
    crashed,        \* a goroutine panicked: the process is gone
    outMessages,    \* chan *Message, capacity 100
    outChunkSize,   \* Client.outChunkSize
    outWindowSize,  \* Client.outWindowSize
    inWindowSize,   \* Client.inWindowSize
    inMessages,     \* chan *Message, capacity 100
    inChunkSize,    \* Client.inChunkSize
    inChunkStreams, \* map[uint32]*InboundChunkStream; Nil where absent
    handlerCalls,   \* the calls made on the ClientHandler, in order
    sendPc, sm, sh, srem,   \* sendLoop: position, m (Buffer: unsent part), h, rem
    recvPc, rraw, rh, rm,   \* receiveLoop: position, h as read, h as resolved, m
    wire,           \* what sendLoop wrote and the far end has not read yet
    submitted,      \* the messages the application put on outMessages, in order
    sentWrites,     \* the writes sendLoop made for the message it last dequeued
    nRead,          \* headers the peer has supplied so far
    announced       \* the chunk size of the last chunk-size message fully received

vars == <<connected, closes, crashed, outMessages, outChunkSize,
          outWindowSize, inWindowSize, inMessages,
          inChunkSize, inChunkStreams, handlerCalls, sendPc, sm, sh, srem,
          recvPc, rraw, rh, rm, wire, submitted, sentWrites, nRead, announced>>

sendLocals == <<sendPc, sm, sh, srem, sentWrites>>
recvLocals == <<recvPc, rraw, rh, rm>>
recvGhosts == <<announced>>
windowSizes == <<outWindowSize, inWindowSize>>

\* The chunk-stream ids the model's peers and applications use.
ChunkStreamIds ==
    {CHUNK_STREAM_ID_PROTOCOL, CHUNK_STREAM_ID_COMMAND, CHUNK_STREAM_ID_USER_CONTROL}

\* NewClient, but for the chunk sizes: the state once Connect has started the
\* three loops and sendLoop has written the connect command.
InitClient ==
    /\ connected = FALSE
    /\ closes = 0
    /\ crashed = FALSE
    /\ outMessages = <<>>
    /\ inMessages = <<>>
    /\ outWindowSize = DEFAULT_WINDOW_SIZE
    /\ inWindowSize = DEFAULT_WINDOW_SIZE
    /\ handlerCalls = <<>>
    /\ sendPc = "dequeue" /\ sm = Nil /\ sh = Nil /\ srem = 0
    /\ recvPc = "header" /\ rraw = Nil /\ rh = Nil /\ rm = Nil
    /\ wire = <<>>
    /\ submitted = <<>>
    /\ sentWrites = <<>>
    /\ nRead = 0

(* ------------------------------------------------------------------ *)
(* Disconnect                                                          *)
(* ------------------------------------------------------------------ *)
\* Client.Disconnect: connected = false; conn.Close().  It calls nothing on
\* the handler.
Disconnect ==
    /\ connected' = FALSE
    /\ closes' = closes + 1
    /\ UNCHANGED handlerCalls

(* ------------------------------------------------------------------ *)
(* The application                                                     *)
(* ------------------------------------------------------------------ *)
\* c.outMessages <- m: blocks while the channel holds 100 messages.
Submit(m) ==
    /\ ~crashed
    /\ Len(outMessages) < OutQueueCap
    /\ outMessages' = Append(outMessages, m)
    /\ submitted' = Append(submitted, m)
    /\ UNCHANGED <<connected, closes, crashed, outChunkSize, windowSizes, inMessages,
                   inChunkSize, inChunkStreams, handlerCalls, sendLocals,
                   recvLocals, wire, nRead, recvGhosts>>

(* ------------------------------------------------------------------ *)
(* sendLoop                                                            *)
(* ------------------------------------------------------------------ *)
\* A flipped comparison: the larger of the two.
WriteSize_Flipped(rem, size) == IF rem < size THEN size ELSE rem

\* ws = rem; if ws > c.outChunkSize { ws = c.outChunkSize }
WriteSize(rem, size) == IF rem > size THEN size ELSE rem

\* for rem > 0: whether the loop writes another chunk.
SendMore(rem) == rem > 0

\* The header left as it was for the next chunk.
NextChunkHeader_Same(h) == h

\* h.Format = HEADER_FORMAT_CONTINUATION, for the next iteration.
NextChunkHeader(h) == [h EXCEPT !.Format = HEADER_FORMAT_CONTINUATION]

\* m := <-c.outMessages; h := cs.NewOutboundHeader(m); rem = m.Length.
\* c.outChunkStreams is never stored to, so cs is a fresh chunk stream.
SendDequeue ==
    /\ ~crashed
    /\ sendPc = "dequeue"
    /\ outMessages # <<>>
    /\ LET m == Head(outMessages) IN
        /\ outMessages' = Tail(outMessages)
        /\ sm' = m
        /\ sh' = NewOutboundHeader(m)
        /\ srem' = m.Length
        /\ sentWrites' = <<>>
        /\ sendPc' = IF SendMore(m.Length) THEN "header" ELSE "dequeue"
    /\ UNCHANGED <<connected, closes, crashed, outChunkSize, windowSizes, inMessages,
                   inChunkSize, inChunkStreams, handlerCalls, recvLocals, wire,
                   submitted, nRead, recvGhosts>>

\* h.Write(c) returns no error.
SendHeader ==
    /\ ~crashed
    /\ sendPc = "header"
    /\ closes = 0
    /\ wire' = wire \o <<WriteHeader(sh)>>
    /\ sentWrites' = Append(sentWrites, <<"header", 0>>)
    /\ sendPc' = "payload"
    /\ UNCHANGED <<connected, closes, crashed, outMessages, outChunkSize, windowSizes,
                   inMessages, inChunkSize, inChunkStreams, handlerCalls, sm, sh,
                   srem, recvLocals, submitted, nRead, recvGhosts>>

\* io.CopyN(c, m.Buffer, ws): copies what the buffer has, up to ws; EOF when the
\* buffer runs short.  Then rem -= n and h.Format = CONTINUATION.
SendPayload ==
    /\ ~crashed
    /\ sendPc = "payload"
    /\ closes = 0
    /\ LET ws == WriteSize(srem, outChunkSize)
           n == Min(ws, Len(sm.Buffer))
       IN
        /\ wire' = wire \o WireBytes(Take(sm.Buffer, n))
        /\ sm' = [sm EXCEPT !.Buffer = Drop(sm.Buffer, n)]
        /\ sentWrites' = Append(sentWrites, <<"payload", n>>)
        /\ IF n < ws
           THEN /\ sendPc' = "failed"
                /\ UNCHANGED <<sh, srem>>
           ELSE /\ srem' = srem - n
                /\ sh' = NextChunkHeader(sh)
                /\ sendPc' = IF SendMore(srem - n) THEN "header" ELSE "dequeue"
    /\ UNCHANGED <<connected, closes, crashed, outMessages, outChunkSize, windowSizes,
                   inMessages, inChunkSize, inChunkStreams, handlerCalls,
                   recvLocals, submitted, nRead, recvGhosts>>

\* h.Write(c) or io.CopyN returns an error: the conn is closed, or the
\* transport failed.  A failed copy may have written part of the chunk.
SendFail ==
    /\ ~crashed
    /\ \/ /\ sendPc = "header"
          /\ UNCHANGED <<wire, sm, sentWrites>>
       \/ /\ sendPc = "payload"
          /\ \E k \in 0..(Min(WriteSize(srem, outChunkSize), Len(sm.Buffer)) - 1) :
                /\ wire' = wire \o WireBytes(Take(sm.Buffer, k))
                /\ sm' = [sm EXCEPT !.Buffer = Drop(sm.Buffer, k)]
                /\ sentWrites' = Append(sentWrites, <<"payload", k>>)
    /\ sendPc' = "failed"
    /\ UNCHANGED <<connected, closes, crashed, outMessages, outChunkSize, windowSizes,
                   inMessages, inChunkSize, inChunkStreams, handlerCalls, sh,
                   srem, recvLocals, submitted, nRead, recvGhosts>>

\* if c.connected { ... }: the read of the flag.
SendCheckConnected ==
    /\ ~crashed
    /\ sendPc = "failed"
    /\ sendPc' = IF connected THEN "disconnect" ELSE "exit"
    /\ UNCHANGED <<connected, closes, crashed, outMessages, outChunkSize, windowSizes,
                   inMessages, inChunkSize, inChunkStreams, handlerCalls, sm, sh,
                   srem, sentWrites, recvLocals, wire, submitted, nRead,
                   recvGhosts>>

\* c.Disconnect(); return
SendDisconnect ==
    /\ ~crashed
    /\ sendPc = "disconnect"
    /\ Disconnect
    /\ sendPc' = "exit"
    /\ UNCHANGED <<crashed, outMessages, outChunkSize, windowSizes, inMessages, inChunkSize,
                   inChunkStreams, sm, sh, srem, sentWrites, recvLocals, wire,
                   submitted, nRead, recvGhosts>>

(* ------------------------------------------------------------------ *)
(* receiveLoop                                                         *)
(* ------------------------------------------------------------------ *)
\* One chunk stream, that of the protocol id, looked up for every id.
ChunkStreamOf_Protocol(id) ==
    IF inChunkStreams[CHUNK_STREAM_ID_PROTOCOL] = Nil
    THEN NewInboundChunkStream ELSE inChunkStreams[CHUNK_STREAM_ID_PROTOCOL]

\* c.inChunkStreams[h.ChunkStreamId], made when absent.
ChunkStreamOf(id) ==
    IF inChunkStreams[id] = Nil THEN NewInboundChunkStream ELSE inChunkStreams[id]

\* The check made for CONTINUATION only.
NeedsPrevious_OnlyContinuation(cs, h) ==
    cs.lastHeader = Nil /\ h.Format = HEADER_FORMAT_CONTINUATION

\* (cs.lastHeader == nil) && (h.Format != HEADER_FORMAT_FULL)
NeedsPrevious(cs, h) == cs.lastHeader = Nil /\ h.Format # HEADER_FORMAT_FULL

\* case HEADER_FORMAT_FULL: the header replaces lastHeader and gives ts.
ResolveFull(cs, h) ==
    [panic |-> FALSE, h |-> h, ts |-> h.Timestamp, last |-> h, m |-> Nil]

\* case HEADER_FORMAT_SAME_STREAM: the stream id of the last header; the
\* timestamp is a delta.
ResolveSameStream(cs, h) ==
    LET last == cs.lastHeader
        r == [h EXCEPT !.MessageStreamId = last.MessageStreamId]
    IN [panic |-> FALSE, h |-> r, ts |-> cs.lastInAbsoluteTimestamp + h.Timestamp,
        last |-> r, m |-> Nil]

\* The delta taken for the timestamp itself.
ResolveSameLengthAndStream_Absolute(cs, h) ==
    LET last == cs.lastHeader
        r == [h EXCEPT !.MessageStreamId = last.MessageStreamId,
                       !.MessageLength = last.MessageLength,
                       !.MessageTypeId = last.MessageTypeId]
    IN [panic |-> FALSE, h |-> r, ts |-> h.Timestamp, last |-> r, m |-> Nil]

\* case HEADER_FORMAT_SAME_LENGTH_AND_STREAM: stream id, length and type of the
\* last header; the timestamp is a delta.
ResolveSameLengthAndStream(cs, h) ==
    LET last == cs.lastHeader
        r == [h EXCEPT !.MessageStreamId = last.MessageStreamId,
                       !.MessageLength = last.MessageLength,
                       !.MessageTypeId = last.MessageTypeId]
    IN [panic |-> FALSE, h |-> r, ts |-> cs.lastInAbsoluteTimestamp + h.Timestamp,
        last |-> r, m |-> Nil]

\* case HEADER_FORMAT_CONTINUATION: every field of the last header, which
\* stays; ts adds the last header's timestamp again; the message in progress,
\* if there is one, goes on.
ResolveContinuation(cs, h) ==
    LET last == cs.lastHeader
        r == [h EXCEPT !.MessageStreamId = last.MessageStreamId,
                       !.MessageLength = last.MessageLength,
                       !.MessageTypeId = last.MessageTypeId,
                       !.Timestamp = last.Timestamp]
    IN [panic |-> FALSE, h |-> r,
        ts |-> cs.lastInAbsoluteTimestamp + last.Timestamp,
        last |-> last, m |-> cs.currentMessage]

\* The switch on h.Format: the header with its inherited fields, the working
\* timestamp ts, the chunk stream's new lastHeader, and the message to go on
\* with (Nil: make one).  Reading a field of a nil lastHeader panics.
Resolve(cs, h) ==
    IF h.Format = HEADER_FORMAT_FULL THEN ResolveFull(cs, h)
    ELSE IF cs.lastHeader = Nil THEN
        [panic |-> TRUE, h |-> h, ts |-> 0, last |-> Nil, m |-> Nil]
    ELSE IF h.Format = HEADER_FORMAT_SAME_STREAM THEN ResolveSameStream(cs, h)
    ELSE IF h.Format = HEADER_FORMAT_SAME_LENGTH_AND_STREAM
        THEN ResolveSameLengthAndStream(cs, h)
    ELSE ResolveContinuation(cs, h)

\* if m == nil { m = &Message{...} }
NewInboundMessage(h, ts) ==
    MkMessage(h.MessageTypeId, h.ChunkStreamId, h.MessageStreamId,
              CalculateTimestamp(h), ts, h.MessageLength, <<>>)

\* The chunk size without the clamp to what remains.
ReadSize_NoClamp(m, size) == size

\* The default chunk size in place of the negotiated one.
ReadSize_Default(m, size) ==
    IF RemainingBytes(m) > DEFAULT_CHUNK_SIZE
    THEN DEFAULT_CHUNK_SIZE ELSE RemainingBytes(m)

\* rs := m.RemainingBytes(); if rs > c.inChunkSize { rs = c.inChunkSize }
ReadSize(m, size) ==
    IF RemainingBytes(m) > size THEN size ELSE RemainingBytes(m)

\* if m.RemainingBytes() == 0: the message is complete.
IsComplete(m) == RemainingBytes(m) = 0

\* m is cs.currentMessage itself (the same pointer), not a new message.
Aliased == /\ rh.Format = HEADER_FORMAT_CONTINUATION
           /\ inChunkStreams[rh.ChunkStreamId].currentMessage # Nil

\* ReadHeader returned h without error; lines 282-347.  The caller says where h
\* came from (wire, nRead).
RecvHeader(h) ==
    /\ ~crashed
    /\ recvPc = "header"
    /\ closes = 0
    /\ LET id == h.ChunkStreamId
           cs == ChunkStreamOf(id)
           r == Resolve(cs, h)
       IN
        /\ rraw' = h
        /\ IF NeedsPrevious(cs, h) THEN
                /\ Disconnect
                /\ recvPc' = "exit"
                /\ rh' = h
                /\ rm' = Nil
                /\ inChunkStreams' = [inChunkStreams EXCEPT ![id] = cs]
                /\ UNCHANGED crashed
           ELSE IF r.panic THEN
                /\ crashed' = TRUE
                /\ recvPc' = "exit"
                /\ rh' = h
                /\ rm' = Nil
                /\ inChunkStreams' = [inChunkStreams EXCEPT ![id] = cs]
                /\ UNCHANGED <<connected, closes, handlerCalls>>
           ELSE
                /\ rh' = r.h
                /\ rm' = IF r.m = Nil THEN NewInboundMessage(r.h, r.ts) ELSE r.m
                /\ inChunkStreams' = [inChunkStreams EXCEPT ![id] =
                        [cs EXCEPT !.lastHeader = r.last,
                                   !.lastInAbsoluteTimestamp = r.ts]]
                /\ recvPc' = "chunk"
                /\ UNCHANGED <<connected, closes, handlerCalls, crashed>>
    /\ UNCHANGED <<outMessages, outChunkSize, windowSizes, inMessages, inChunkSize,
                   sendLocals, submitted, recvGhosts>>

\* The chunk-size value a completed message announces: that of a chunk-size
\* message on the protocol chunk stream, else the one announced before.
Announces(m, before) ==
    IF /\ m.ChunkStreamId = CHUNK_STREAM_ID_PROTOCOL
       /\ m.Type = MESSAGE_TYPE_CHUNK_SIZE
       /\ Len(m.Buffer) >= 4
    THEN BigEndianUint32(m.Buffer) ELSE before

\* io.CopyN(m.Buffer, c, rs) returned no error; lines 349-369 up to the send on
\* c.inMessages.  bytes are the rs bytes the connection delivered.
RecvChunk(bytes) ==
    /\ ~crashed
    /\ recvPc = "chunk"
    /\ closes = 0
    /\ Len(bytes) = ReadSize(rm, inChunkSize)
    /\ LET id == rh.ChunkStreamId
           m == [rm EXCEPT !.Buffer = rm.Buffer \o bytes]
       IN
        /\ IF IsComplete(m)
           THEN /\ inChunkStreams' = [inChunkStreams EXCEPT ![id].currentMessage = Nil]
                /\ rm' = m
                /\ recvPc' = "enqueue"
                /\ announced' = Announces(m, announced)
           ELSE /\ inChunkStreams' = [inChunkStreams EXCEPT ![id].currentMessage = m]
                /\ rm' = Nil
                /\ recvPc' = "header"
                /\ UNCHANGED announced
    /\ rraw' = Nil
    /\ rh' = Nil
    /\ UNCHANGED <<connected, closes, crashed, outMessages, outChunkSize, windowSizes,
                   inMessages, inChunkSize, handlerCalls, sendLocals, submitted>>

\* A send that never blocks.
CanEnqueue_Always(q) == TRUE

\* A send on c.inMessages goes through when the channel holds fewer than 100.
CanEnqueue(q) == Len(q) < InQueueCap

\* c.inMessages <- m: blocks while the channel holds 100 messages.
RecvEnqueue ==
    /\ ~crashed
    /\ recvPc = "enqueue"
    /\ CanEnqueue(inMessages)
    /\ inMessages' = Append(inMessages, rm)
    /\ rm' = Nil
    /\ recvPc' = "header"
    /\ UNCHANGED <<connected, closes, crashed, outMessages, outChunkSize, windowSizes,
                   inChunkSize, inChunkStreams, handlerCalls, sendLocals, rraw,
                   rh, wire, submitted, nRead, recvGhosts>>

\* ReadHeader returned an error: the conn is closed, or the transport failed.
RecvHeaderFail ==
    /\ ~crashed
    /\ recvPc = "header"
    /\ recvPc' = "failed"
    /\ UNCHANGED <<connected, closes, crashed, outMessages, outChunkSize, windowSizes,
                   inMessages, inChunkSize, inChunkStreams, handlerCalls,
                   sendLocals, rraw, rh, rm, wire, submitted, nRead, recvGhosts>>

\* io.CopyN returned an error after copying bytes, fewer than rs, into m.Buffer;
\* when m is the chunk stream's current message it is that buffer that grew.
RecvChunkFail(bytes) ==
    /\ ~crashed
    /\ recvPc = "chunk"
    /\ Len(bytes) < ReadSize(rm, inChunkSize)
    /\ LET m == [rm EXCEPT !.Buffer = rm.Buffer \o bytes] IN
        /\ rm' = m
        /\ inChunkStreams' =
              IF Aliased
              THEN [inChunkStreams EXCEPT ![rh.ChunkStreamId].currentMessage = m]
              ELSE inChunkStreams
    /\ recvPc' = "failed"
    /\ UNCHANGED <<connected, closes, crashed, outMessages, outChunkSize, windowSizes,
                   inMessages, inChunkSize, handlerCalls, sendLocals, rraw, rh,
                   submitted, recvGhosts>>

\* if c.connected { ... }: the read of the flag.
RecvCheckConnected ==
    /\ ~crashed
    /\ recvPc = "failed"
    /\ recvPc' = IF connected THEN "disconnect" ELSE "exit"
    /\ UNCHANGED <<connected, closes, crashed, outMessages, outChunkSize, windowSizes,
                   inMessages, inChunkSize, inChunkStreams, handlerCalls,
                   sendLocals, rraw, rh, rm, wire, submitted, nRead, recvGhosts>>

\* c.Disconnect(); return
RecvDisconnect ==
    /\ ~crashed
    /\ recvPc = "disconnect"
    /\ Disconnect
    /\ recvPc' = "exit"
    /\ UNCHANGED <<crashed, outMessages, outChunkSize, windowSizes, inMessages, inChunkSize,
                   inChunkStreams, sendLocals, rraw, rh, rm, wire, submitted,
                   nRead, recvGhosts>>

(* ------------------------------------------------------------------ *)
(* dispatchLoop                                                        *)
(* ------------------------------------------------------------------ *)
\* The switch on m.ChunkStreamId, which has no default case.
DispatchRoute(m) ==
    IF m.ChunkStreamId = CHUNK_STREAM_ID_PROTOCOL THEN "protocol"
    ELSE IF m.ChunkStreamId = CHUNK_STREAM_ID_COMMAND THEN "command"
    ELSE "none"

\* The decoding of four bytes made for every type.
ProtocolPanics_AnyType(m) == Len(m.Buffer) < 4

\* binary.BigEndian.Uint32(m.Buffer.Bytes()) panics on fewer than four bytes.
ProtocolPanics(m) ==
    /\ m.Type \in {MESSAGE_TYPE_CHUNK_SIZE, MESSAGE_TYPE_BANDWIDTH}
    /\ Len(m.Buffer) < 4

\* handleProtocolMessage: the inbound chunk size it leaves.
HandleProtocolMessage(m, size) ==
    IF m.Type = MESSAGE_TYPE_CHUNK_SIZE THEN BigEndianUint32(m.Buffer) ELSE size

\* m := <-c.inMessages, and the handler the switch calls.
Dispatch ==
    /\ ~crashed
    /\ inMessages # <<>>
    /\ LET m == Head(inMessages)
           route == DispatchRoute(m)
       IN
        /\ inMessages' = Tail(inMessages)
        /\ IF route = "protocol" /\ ProtocolPanics(m)
           THEN /\ crashed' = TRUE
                /\ UNCHANGED <<inChunkSize, connected>>
           ELSE /\ inChunkSize' = IF route = "protocol"
                                  THEN HandleProtocolMessage(m, inChunkSize)
                                  ELSE inChunkSize
                /\ connected' = IF route = "command" THEN TRUE ELSE connected
                /\ UNCHANGED crashed
    /\ UNCHANGED <<closes, outMessages, outChunkSize, windowSizes, inChunkStreams,
                   handlerCalls, sendLocals, recvLocals, wire, submitted, nRead,
                   recvGhosts>>

(* ------------------------------------------------------------------ *)
(* Loopback: two clients back to back, fault-free connection.  What     *)
(* sendLoop writes is what receiveLoop reads, with the same chunk size  *)
(* on both ends.                                                        *)
(* ------------------------------------------------------------------ *)
\* The chunk sizes tried: small ones, and the default.
ChunkSizesRT == (1..MaxChunk) \cup {DEFAULT_CHUNK_SIZE}

\* The message lengths tried with chunk size C: none, one short of a chunk, and
\* k*C and k*C+1 for k = 1, 2 at the default; all short lengths otherwise.
LengthsRT(C) ==
    IF C = DEFAULT_CHUNK_SIZE
    THEN {0, C - 1, C, C + 1, 2 * C, 2 * C + 1}
    ELSE 0..MaxLen

\* A payload of L bytes, each telling its position.
Payload(L, seed) == [i \in 1..L |-> (seed + i) % 256]

\* The messages the application submits: a command and an audio message, with
\* a short and an extended timestamp.
MessagesRT(C) ==
    { MkMessage(shape[1], shape[2], shape[3], ts, 0, L, Payload(L, shape[3])) :
        shape \in {<<MESSAGE_TYPE_AMF0, CHUNK_STREAM_ID_COMMAND, 0>>,
                   <<MESSAGE_TYPE_AUDIO, CHUNK_STREAM_ID_USER_CONTROL, 1>>},
        ts \in {1, TIMESTAMP_EXTENDED},
        L \in LengthsRT(C) }

InitRT ==
    /\ InitClient
    /\ outChunkSize \in ChunkSizesRT
    /\ inChunkSize = outChunkSize
    /\ inChunkStreams = [id \in ChunkStreamIds |-> Nil]
    /\ announced = outChunkSize

SubmitRT ==
    /\ Len(submitted) < MaxSubmitRT
    /\ \E m \in MessagesRT(outChunkSize) : Submit(m)

\* ReadHeader has a header to decode at the head of the wire.
CanReadHeader == wire # <<>> /\ IsHeaderToken(Head(wire))

\* io.CopyN has rs payload bytes to copy at the head of the wire.
CanReadChunk(rs) ==
    /\ Len(wire) >= rs
    /\ \A i \in 1..rs : ~IsHeaderToken(wire[i])

WireHeader ==
    /\ CanReadHeader
    /\ RecvHeader(ReadHeader(Head(wire)))
    /\ wire' = Tail(wire)
    /\ UNCHANGED nRead

WireChunk ==
    /\ recvPc = "chunk"
    /\ LET rs == ReadSize(rm, inChunkSize) IN
        /\ CanReadChunk(rs)
        /\ RecvChunk([i \in 1..rs |-> wire[i].b])
        /\ wire' = Drop(wire, rs)
    /\ UNCHANGED nRead

NextRT ==
    \/ SubmitRT
    \/ SendDequeue
    \/ SendHeader
    \/ SendPayload
    \/ WireHeader
    \/ WireChunk
    \/ RecvEnqueue

SpecRT == InitRT /\ [][NextRT]_vars

\* What the round trip is to preserve of a message.
RoundTripFields(m) == <<m.Type, m.ChunkStreamId, m.StreamId, m.Timestamp, m.Buffer>>

\* sendLoop has written every submitted message and receiveLoop has read all
\* that was written.
QuiescentRT ==
    /\ outMessages = <<>>
    /\ sendPc = "dequeue"
    /\ wire = <<>>
    /\ recvPc = "header"

\* C1: round trip.  Once everything submitted has been sent and read, each
\* submitted message (of any length L >= 0) has been enqueued for dispatch
\* exactly once, in order, with its type, chunk-stream id, stream id, timestamp
\* and payload.
C1_RoundTrip ==
    QuiescentRT =>
        /\ Len(inMessages) = Len(submitted)
        /\ \A i \in 1..Len(submitted) :
              i <= Len(inMessages) =>
              RoundTripFields(inMessages[i]) = RoundTripFields(submitted[i])

\* The same restricted to the messages with a payload: what the loop does
\* preserve.
NonEmpty(m) == m.Length > 0
RoundTripOfNonEmpty ==
    QuiescentRT =>
        LET sent == SelectSeq(submitted, NonEmpty) IN
        /\ Len(inMessages) = Len(sent)
        /\ \A i \in 1..Len(sent) :
              i <= Len(inMessages) =>
              RoundTripFields(inMessages[i]) = RoundTripFields(sent[i])

\* k chunks of C payload bytes, then one of `last` bytes when last > 0, each
\* after one header write.
RECURSIVE ChunkWrites(_, _, _)
ChunkWrites(k, C, last) ==
    IF k = 0
    THEN IF last > 0 THEN << <<"header", 0>>, <<"payload", last>> >> ELSE <<>>
    ELSE << <<"header", 0>>, <<"payload", C>> >> \o ChunkWrites(k - 1, C, last)

IsPrefix(s, t) == Len(s) <= Len(t) /\ \A i \in 1..Len(s) : s[i] = t[i]

\* C2: chunking boundary.  For the message sendLoop last dequeued, of length
\* k*C (k >= 1) the writes are k times a header and C payload bytes, of length
\* k*C+1 the same followed by a header and 1 payload byte: the writes made so
\* far are a prefix of that, and all of it once the message is finished.
C2_ChunkBoundary ==
    sm # Nil =>
        \A k \in 1..sm.Length : \A last \in {0, 1} :
            sm.Length = k * outChunkSize + last =>
                /\ IsPrefix(sentWrites, ChunkWrites(k, outChunkSize, last))
                /\ sendPc = "dequeue" =>
                      sentWrites = ChunkWrites(k, outChunkSize, last)

\* A message of 2*C+1 bytes, C > 1, has been written whole.
C2_Witness ==
    /\ sm # Nil
    /\ outChunkSize > 1
    /\ sm.Length = 2 * outChunkSize + 1
    /\ sendPc = "dequeue"
    /\ Len(sentWrites) = 6

(* ------------------------------------------------------------------ *)
(* Receive run: the peer sends any headers and payloads of a small set  *)
(* over a fault-free connection; the application submits nothing.       *)
(* ------------------------------------------------------------------ *)
\* What the peer's headers announce: chunk-size messages on the protocol chunk
\* stream (message stream 0), audio on another (message stream 1).
PeerKinds ==
    {<<CHUNK_STREAM_ID_PROTOCOL, MESSAGE_TYPE_CHUNK_SIZE, 0>>,
     <<CHUNK_STREAM_ID_USER_CONTROL, MESSAGE_TYPE_AUDIO, 1>>}
PeerLengths == {0, 2, MaxLen}
\* A FULL header carries the timestamp 1; the others a delta, of 1 or 2.
PeerTimestamps(fmt) ==
    IF fmt = HEADER_FORMAT_FULL THEN {1}
    ELSE IF fmt = HEADER_FORMAT_SAME_STREAM THEN {2}
    ELSE {1, 2}
HeaderFormats ==
    {HEADER_FORMAT_FULL, HEADER_FORMAT_SAME_STREAM,
     HEADER_FORMAT_SAME_LENGTH_AND_STREAM, HEADER_FORMAT_CONTINUATION}

\* The headers on the wire: each format with the fields it carries.
TokensOf(formats, kinds, lengths) ==
    UNION { { WriteHeader(MkHeader(fmt, kind[1], ts, len, kind[2], kind[3])) :
                kind \in kinds, ts \in PeerTimestamps(fmt), len \in lengths } :
            fmt \in formats }
PeerTokens == TokensOf(HeaderFormats, PeerKinds, PeerLengths)

\* The payloads of n bytes: big-endian encodings of small values.
PeerBytes(n) == { BigEndian(v, n) : v \in 0..MaxVal }

\* The chunk stream a handled chunk-size message leaves behind.
AfterChunkSizeMessage ==
    [lastHeader |-> MkHeader(HEADER_FORMAT_FULL, CHUNK_STREAM_ID_PROTOCOL, 1, 4,
                             MESSAGE_TYPE_CHUNK_SIZE, 0),
     lastInAbsoluteTimestamp |-> 1,
     currentMessage |-> Nil]

\* NewClient, or the state once a first chunk-size message, to 2, was handled.
Init ==
    /\ InitClient
    /\ outChunkSize = DEFAULT_CHUNK_SIZE
    /\ \/ /\ inChunkSize = DEFAULT_CHUNK_SIZE
          /\ inChunkStreams = [id \in ChunkStreamIds |-> Nil]
       \/ /\ inChunkSize = 2
          /\ inChunkStreams = [id \in ChunkStreamIds |->
                IF id = CHUNK_STREAM_ID_PROTOCOL THEN AfterChunkSizeMessage ELSE Nil]
    /\ announced = inChunkSize

PeerHeader ==
    /\ nRead < MaxHeaders
    /\ \E w \in PeerTokens : RecvHeader(ReadHeader(w))
    /\ nRead' = nRead + 1
    /\ UNCHANGED wire

PeerChunk ==
    /\ recvPc = "chunk"
    /\ \E bytes \in PeerBytes(ReadSize(rm, inChunkSize)) : RecvChunk(bytes)
    /\ UNCHANGED <<wire, nRead>>

Next ==
    \/ PeerHeader
    \/ PeerChunk
    \/ RecvEnqueue
    \/ Dispatch

Spec == Init /\ [][Next]_vars

(* ------------------------------------------------------------------ *)
(* Connection run: every read and write may fail; the peer sends        *)
(* commands and audio, the application submits audio.                   *)
(* ------------------------------------------------------------------ *)
PeerKindsConn ==
    {<<CHUNK_STREAM_ID_COMMAND, MESSAGE_TYPE_AMF0, 0>>,
     <<CHUNK_STREAM_ID_USER_CONTROL, MESSAGE_TYPE_AUDIO, 1>>}
PeerTokensConn ==
    TokensOf({HEADER_FORMAT_FULL, HEADER_FORMAT_CONTINUATION}, PeerKindsConn,
             {0, MaxLen})

MessagesConn ==
    {MkMessage(MESSAGE_TYPE_AUDIO, CHUNK_STREAM_ID_USER_CONTROL, 1, 1, 0, 2,
               Payload(2, 0))}

PeerHeaderConn ==
    /\ nRead < MaxHeadersConn
    /\ \E w \in PeerTokensConn : RecvHeader(ReadHeader(w))
    /\ nRead' = nRead + 1
    /\ UNCHANGED wire

PeerChunkFail ==
    /\ recvPc = "chunk"
    /\ \E k \in 0..(ReadSize(rm, inChunkSize) - 1) :
          \E bytes \in PeerBytes(k) : RecvChunkFail(bytes)
    /\ UNCHANGED <<wire, nRead>>

SubmitConn ==
    /\ Len(submitted) < MaxSubmitConn
    /\ \E m \in MessagesConn : Submit(m)

NextConn ==
    \/ SubmitConn
    \/ SendDequeue
    \/ SendHeader
    \/ SendPayload
    \/ SendFail
    \/ SendCheckConnected
    \/ SendDisconnect
    \/ PeerHeaderConn
    \/ PeerChunk
    \/ PeerChunkFail
    \/ RecvEnqueue
    \/ RecvHeaderFail
    \/ RecvCheckConnected
    \/ RecvDisconnect
    \/ Dispatch

SpecConn == Init /\ [][NextConn]_vars

(* ------------------------------------------------------------------ *)
(* Queue run: the application submits more messages than outMessages    *)
(* holds, numbered by their timestamps, over a fault-free connection.   *)
(* ------------------------------------------------------------------ *)
\* The n-th message: one payload byte, or none for the first.
MessagesQ(n) ==
    { MkMessage(MESSAGE_TYPE_AUDIO, CHUNK_STREAM_ID_USER_CONTROL, 1, n, 0, L,
                Payload(L, n)) : L \in IF n = 1 THEN {0, 1} ELSE {1} }

SubmitQ ==
    /\ Len(submitted) < MaxSubmitQ
    /\ \E m \in MessagesQ(Len(submitted) + 1) : Submit(m)

NextQ ==
    \/ SubmitQ
    \/ SendDequeue
    \/ SendHeader
    \/ SendPayload

SpecQ == Init /\ [][NextQ]_vars

(* ------------------------------------------------------------------ *)
(* Steps of the loops, told from the state before and after             *)
(* ------------------------------------------------------------------ *)
\* receiveLoop read a header (rraw' is the header as read).
HeaderStep == recvPc = "header" /\ recvPc' \in {"chunk", "exit"}

\* receiveLoop read a chunk's payload without error.
ChunkStep == recvPc = "chunk" /\ recvPc' \in {"enqueue", "header"}

\* The bytes that chunk added to the message.
ChunkRead ==
    LET got == IF recvPc' = "enqueue" THEN rm'
               ELSE inChunkStreams'[rh.ChunkStreamId].currentMessage
    IN Len(got.Buffer) - Len(rm.Buffer)

\* dispatchLoop dequeued the head of inMessages.
DispatchStep == inMessages # <<>> /\ inMessages' = Tail(inMessages)

HasLastHeader(id) ==
    inChunkStreams[id] # Nil /\ inChunkStreams[id].lastHeader # Nil

\* C3: precondition enforcement.  A header of a format other than FULL read on
\* a chunk stream with no last header makes receiveLoop disconnect and exit: no
\* message is made or kept for the chunk stream, no payload is read, nothing is
\* enqueued, and no field is inherited.
C3_RejectsFirstNonFull ==
    [][ (HeaderStep /\ rraw'.Format # HEADER_FORMAT_FULL
            /\ ~HasLastHeader(rraw'.ChunkStreamId))
        => /\ recvPc' = "exit"
           /\ ~connected'
           /\ closes' = closes + 1
           /\ ~crashed'
           /\ rm' = Nil
           /\ rh' = rraw'
           /\ inMessages' = inMessages
           /\ inChunkStreams'[rraw'.ChunkStreamId] = NewInboundChunkStream
      ]_vars

\* A SAME_STREAM header was rejected as the first on its chunk stream, after
\* other headers were accepted.
C3_Witness ==
    /\ recvPc = "exit"
    /\ closes = 1
    /\ nRead >= 2
    /\ rraw # Nil
    /\ rraw.Format = HEADER_FORMAT_SAME_STREAM
    /\ inChunkStreams[rraw.ChunkStreamId] = NewInboundChunkStream

\* C4: header inheritance.  A SAME_LENGTH_AND_STREAM header with delta d, read
\* on a chunk stream whose last header has stream id S, length N and type T,
\* gives a message of stream id S, length N, type T and absolute timestamp the
\* chunk stream's last absolute timestamp + d, and becomes the last header.
C4_SameLengthAndStreamInherits ==
    [][ (HeaderStep /\ rraw'.Format = HEADER_FORMAT_SAME_LENGTH_AND_STREAM
            /\ HasLastHeader(rraw'.ChunkStreamId))
        => LET id == rraw'.ChunkStreamId
               last == inChunkStreams[id].lastHeader
               prev == inChunkStreams[id].lastInAbsoluteTimestamp
               d == rraw'.Timestamp
           IN /\ recvPc' = "chunk"
              /\ rm'.StreamId = last.MessageStreamId
              /\ rm'.Length = last.MessageLength
              /\ rm'.Type = last.MessageTypeId
              /\ rm'.AbsoluteTimestamp = prev + d
              /\ inChunkStreams'[id].lastInAbsoluteTimestamp = prev + d
              /\ inChunkStreams'[id].lastHeader =
                    MkHeader(HEADER_FORMAT_SAME_LENGTH_AND_STREAM, id, d,
                             last.MessageLength, last.MessageTypeId,
                             last.MessageStreamId)
      ]_vars

\* A SAME_LENGTH_AND_STREAM header with delta 2 has been resolved after a FULL
\* header of timestamp 1, stream id 1 and length MaxLen.
C4_Witness ==
    /\ recvPc = "chunk"
    /\ rraw.Format = HEADER_FORMAT_SAME_LENGTH_AND_STREAM
    /\ rraw.Timestamp = 2
    /\ rm.AbsoluteTimestamp = 3
    /\ rm.StreamId = 1
    /\ rm.Length = MaxLen
    /\ rm.Type = MESSAGE_TYPE_AUDIO

\* C5: a chunk-size change takes effect for all later chunks.  Every chunk read
\* after a chunk-size message has been received whole is sliced with
\* min(remaining, the size that message carries).
C5_AnnouncedSizeApplies ==
    [][ ChunkStep => ChunkRead = Min(RemainingBytes(rm), announced) ]_vars

\* C6: renegotiation is never retroactive.  Each chunk is sliced with
\* min(remaining, the inbound chunk size at the moment of the read), and the
\* step that changes the inbound chunk size leaves every chunk already read as
\* it was: the messages in progress, the one in receiveLoop's hands and the
\* ones queued behind the chunk-size message.
C6_NotRetroactive ==
    [][ /\ ChunkStep => ChunkRead = Min(RemainingBytes(rm), inChunkSize)
        /\ inChunkSize' # inChunkSize =>
              /\ inChunkStreams' = inChunkStreams
              /\ rm' = rm
              /\ inMessages' = Tail(inMessages)
      ]_vars

\* A message of 4 bytes holds 3: a chunk of 2 read at chunk size 2, then,
\* the change to 1 having been handled meanwhile, a chunk of 1.
C6_Witness ==
    /\ inChunkSize = 1
    /\ inChunkStreams[CHUNK_STREAM_ID_USER_CONTROL] # Nil
    /\ LET m == inChunkStreams[CHUNK_STREAM_ID_USER_CONTROL].currentMessage IN
        /\ m # Nil
        /\ m.Length = 4
        /\ Len(m.Buffer) = 3

\* C9: no partial message is delivered.  Every message being reassembled holds
\* at most its declared length, and every message on the dispatch queue, or
\* about to be put there, holds exactly its declared length.
C9_NoPartialMessage ==
    /\ \A id \in ChunkStreamIds :
          (inChunkStreams[id] # Nil /\ inChunkStreams[id].currentMessage # Nil)
          => Len(inChunkStreams[id].currentMessage.Buffer)
                <= inChunkStreams[id].currentMessage.Length
    /\ rm # Nil => Len(rm.Buffer) <= rm.Length
    /\ recvPc = "enqueue" => Len(rm.Buffer) = rm.Length
    /\ \A i \in 1..Len(inMessages) :
          Len(inMessages[i].Buffer) = inMessages[i].Length

\* A message reassembled from two chunks is queued while another chunk stream
\* holds half a message.
C9_Witness ==
    /\ inChunkSize = 2
    /\ \E i \in 1..Len(inMessages) :
          /\ inMessages[i].Length = 4
          /\ inMessages[i].ChunkStreamId = CHUNK_STREAM_ID_USER_CONTROL
    /\ inChunkStreams[CHUNK_STREAM_ID_PROTOCOL] # Nil
    /\ LET m == inChunkStreams[CHUNK_STREAM_ID_PROTOCOL].currentMessage IN
        /\ m # Nil
        /\ Len(m.Buffer) = 2
        /\ m.Length = 4

\* C10: dispatch routing.  A dequeued message goes by its chunk-stream id: 2 to
\* the protocol control handler, 3 to the command handling, which marks the
\* client connected, and any other to the application handler's OnReceive.
C10_DispatchRouting ==
    [][ DispatchStep =>
          LET m == Head(inMessages) IN
          /\ m.ChunkStreamId = CHUNK_STREAM_ID_PROTOCOL
                => DispatchRoute(m) = "protocol"
          /\ m.ChunkStreamId = CHUNK_STREAM_ID_COMMAND
                => DispatchRoute(m) = "command" /\ connected'
          /\ m.ChunkStreamId \notin
                {CHUNK_STREAM_ID_PROTOCOL, CHUNK_STREAM_ID_COMMAND}
                => handlerCalls' = Append(handlerCalls, <<"OnReceive", m>>)
      ]_vars

(* ------------------------------------------------------------------ *)
(* The outbound queue and the disconnect sequence                       *)
(* ------------------------------------------------------------------ *)
\* sendLoop has nothing left to send.
QuiescentSend == outMessages = <<>> /\ sendPc = "dequeue"

\* The timestamps of the message-opening (FULL) headers written, in order.
IsFullHeaderToken(w) == IsHeaderToken(w) /\ w.fmt = HEADER_FORMAT_FULL
WrittenTimestamps ==
    LET hs == SelectSeq(wire, IsFullHeaderToken) IN
    [i \in 1..Len(hs) |-> ReadHeader(hs[i]).Timestamp]
TimestampsOf(ms) == [i \in 1..Len(ms) |-> ms[i].Timestamp]

\* C7: outbound backpressure, not loss.  outMessages never holds more than 100
\* messages, and once sendLoop has nothing left to send, every message
\* submitted has been written to the connection once, in submission order.
C7_BackpressureNoLoss ==
    /\ Len(outMessages) <= OutQueueCap
    /\ QuiescentSend => WrittenTimestamps = TimestampsOf(submitted)

\* What holds of the queue: its bound, and the delivery in order of the
\* messages that have a payload.
QueueBounded == Len(outMessages) <= OutQueueCap
NonEmptyWrittenInOrder ==
    QuiescentSend =>
        WrittenTimestamps = TimestampsOf(SelectSeq(submitted, NonEmpty))
\* The queue is full with more to submit: the producer is blocked.
ProducerBlocked ==
    Len(outMessages) = OutQueueCap /\ Len(submitted) < MaxSubmitQ

\* receiveLoop returned on a failed read (not on a rejected header, not by a
\* panic); sendLoop returns on failed writes only.
RecvExitOnFailure ==
    /\ recvPc = "exit"
    /\ ~crashed
    /\ ~(rraw # Nil /\ NeedsPrevious(ChunkStreamOf(rraw.ChunkStreamId), rraw))
SendExitOnFailure == sendPc = "exit"

IsOnDisconnect(call) == call[1] = "OnDisconnect"

\* C8: idempotent disconnect.  When both loops have returned on an I/O
\* failure, the disconnect sequence has run exactly once and the handler has
\* seen exactly one OnDisconnect.
C8_DisconnectOnce ==
    (RecvExitOnFailure /\ SendExitOnFailure) =>
        /\ closes = 1
        /\ Len(SelectSeq(handlerCalls, IsOnDisconnect)) = 1

\* The two parts of it apart: the sequence runs at most once; it runs at least
\* once when both loops failed.
DisconnectAtMostOnce == closes <= 1
DisconnectAtLeastOnce == (RecvExitOnFailure /\ SendExitOnFailure) => closes >= 1

(* ------------------------------------------------------------------ *)
(* Transport faults and shutdown                                        *)
(* ------------------------------------------------------------------ *)
\* A loop returns after a failed read or write: straight from the check of
\* c.connected, or after Disconnect.
RecvFailureExit == recvPc \in {"failed", "disconnect"} /\ recvPc' = "exit"
SendFailureExit == sendPc \in {"failed", "disconnect"} /\ sendPc' = "exit"

\* C11: transport faults are fatal.  When a loop returns after a failed header
\* or payload read or write, the connection is marked not-connected and has
\* been closed, whatever the connected flag was at the failure.
C11_TransportFaultsFatal ==
    [][ (RecvFailureExit \/ SendFailureExit) => (closes' >= 1 /\ ~connected')
      ]_vars

\* What holds of a failed read or write: the loop that hit it returns, and when
\* it read the flag as set it has run Disconnect.
FailedLoopReturns ==
    [][ /\ recvPc = "failed" => recvPc' \in {"failed", "disconnect", "exit"}
        /\ sendPc = "failed" => sendPc' \in {"failed", "disconnect", "exit"}
        /\ recvPc = "disconnect" /\ recvPc' # recvPc
              => recvPc' = "exit" /\ closes' = closes + 1
        /\ sendPc = "disconnect" /\ sendPc' # sendPc
              => sendPc' = "exit" /\ closes' = closes + 1
      ]_vars

\* C17: shutdown cascade.  Once Disconnect has closed the connection, no loop
\* reads a header or a chunk from it, and Disconnect does not run again.
C17_ShutdownCascade ==
    [][ closes >= 1 =>
          /\ closes' = closes
          /\ ~(recvPc = "header" /\ recvPc' = "chunk")
          /\ ~ChunkStep
      ]_vars

\* The part of it that holds: after the close no read succeeds, so no further
\* message is completed.
NoReadAfterClose ==
    [][ closes >= 1 => ~(recvPc = "header" /\ recvPc' = "chunk") /\ ~ChunkStep
      ]_vars

\* C18: disconnected is final.  After Disconnect has run, no step sets the
\* connected flag.
C18_DisconnectedIsFinal ==
    [][ closes >= 1 => ~connected' ]_vars

(* ------------------------------------------------------------------ *)
(* Timestamps of continuation chunks                                    *)
(* ------------------------------------------------------------------ *)
\* receiveLoop read a CONTINUATION header on a chunk stream that holds a
\* message in progress, and goes on with that message.
ContinuationStep ==
    /\ HeaderStep
    /\ recvPc' = "chunk"
    /\ rraw'.Format = HEADER_FORMAT_CONTINUATION
    /\ inChunkStreams[rraw'.ChunkStreamId] # Nil
    /\ inChunkStreams[rraw'.ChunkStreamId].currentMessage # Nil

\* C13: within one multi-chunk message every CONTINUATION chunk resolves the
\* same absolute timestamp, that of the message, so the chunk stream's last
\* absolute timestamp does not depend on the number of chunks.
C13_ContinuationSameTimestamp ==
    [][ ContinuationStep =>
          LET id == rraw'.ChunkStreamId IN
          /\ inChunkStreams'[id].lastInAbsoluteTimestamp
                = inChunkStreams[id].lastInAbsoluteTimestamp
          /\ inChunkStreams'[id].lastInAbsoluteTimestamp
                = inChunkStreams[id].currentMessage.AbsoluteTimestamp
      ]_vars

\* What the code does: each CONTINUATION chunk adds the last header's
\* timestamp once more; the message keeps the timestamp it was made with.
ContinuationAddsTimestamp ==
    [][ ContinuationStep =>
          LET id == rraw'.ChunkStreamId IN
          /\ inChunkStreams'[id].lastInAbsoluteTimestamp
                = inChunkStreams[id].lastInAbsoluteTimestamp
                  + inChunkStreams[id].lastHeader.Timestamp
          /\ rm' = inChunkStreams[id].currentMessage
      ]_vars

(* ------------------------------------------------------------------ *)
(* Messages in progress                                                 *)
(* ------------------------------------------------------------------ *)
\* Chunk stream id holds a partially reassembled message.
InProgress(id) ==
    inChunkStreams[id] # Nil /\ inChunkStreams[id].currentMessage # Nil

\* Message n is message m with more of its payload (or as much).
GoesOn(m, n) ==
    /\ n # Nil
    /\ IsPrefix(m.Buffer, n.Buffer)
    /\ [n EXCEPT !.Buffer = m.Buffer] = m

\* C19: no message in progress is lost.  Whatever header arrives, the message
\* a chunk stream holds stays, with its bytes, until it is complete and goes
\* to the dispatch queue.
C19_InProgressKept ==
    [][ \A id \in ChunkStreamIds :
          InProgress(id) =>
            LET m == inChunkStreams[id].currentMessage IN
            \/ GoesOn(m, inChunkStreams'[id].currentMessage)
            \/ (recvPc' = "enqueue" /\ GoesOn(m, rm') /\ IsComplete(rm'))
      ]_vars

\* What holds: a CONTINUATION header goes on with the message in progress, and
\* the chunk read after it extends that message.
ContinuationKeepsMessage ==
    [][ \A id \in ChunkStreamIds :
          (InProgress(id) /\ (rh = Nil \/ rh.Format = HEADER_FORMAT_CONTINUATION)
                /\ (HeaderStep => rraw'.Format = HEADER_FORMAT_CONTINUATION
                                    \/ rraw'.ChunkStreamId # id)) =>
            LET m == inChunkStreams[id].currentMessage IN
            \/ GoesOn(m, inChunkStreams'[id].currentMessage)
            \/ (recvPc' = "enqueue" /\ GoesOn(m, rm') /\ IsComplete(rm'))
      ]_vars

(* ------------------------------------------------------------------ *)
(* Protocol run: the peer sends protocol-control messages of the types  *)
(* handleProtocolMessage knows and of two it does not, over a           *)
(* fault-free connection.                                               *)
(* ------------------------------------------------------------------ *)
RecognizedProtocolTypes ==
    {MESSAGE_TYPE_CHUNK_SIZE, MESSAGE_TYPE_ACK_SIZE, MESSAGE_TYPE_BANDWIDTH}
PeerKindsProto ==
    { <<CHUNK_STREAM_ID_PROTOCOL, t, 0>> :
        t \in RecognizedProtocolTypes \cup {MESSAGE_TYPE_ABORT, MESSAGE_TYPE_PING} }
PeerTokensProto ==
    TokensOf({HEADER_FORMAT_FULL, HEADER_FORMAT_CONTINUATION}, PeerKindsProto,
             {0, 2, MaxLen})

PeerHeaderProto ==
    /\ nRead < MaxHeadersProto
    /\ \E w \in PeerTokensProto : RecvHeader(ReadHeader(w))
    /\ nRead' = nRead + 1
    /\ UNCHANGED wire

NextProto ==
    \/ PeerHeaderProto
    \/ PeerChunk
    \/ RecvEnqueue
    \/ Dispatch

SpecProto == Init /\ [][NextProto]_vars

\* dispatchLoop dequeued a message of the protocol chunk stream whose type
\* handleProtocolMessage has no case for.
UnrecognizedProtocolStep ==
    /\ DispatchStep
    /\ Head(inMessages).ChunkStreamId = CHUNK_STREAM_ID_PROTOCOL
    /\ Head(inMessages).Type \notin RecognizedProtocolTypes

\* C12: unrecognized protocol-control messages are ignored.  Handling one
\* leaves the chunk sizes, the window sizes, the connected flag, the connection
\* and the chunk streams as they were, and panics nowhere, so dispatchLoop goes
\* on with the next message.
C12_UnrecognizedIgnored ==
    [][ UnrecognizedProtocolStep =>
          /\ UNCHANGED <<inChunkSize, outChunkSize, outWindowSize, inWindowSize,
                         connected, closes, inChunkStreams>>
          /\ ~crashed'
      ]_vars

\* The one message read so far, a PING of two bytes on the protocol chunk
\* stream, was completed, enqueued and dispatched, and the client goes on.
C12_Witness ==
    /\ nRead = 1
    /\ recvPc = "header"
    /\ rm = Nil
    /\ inMessages = <<>>
    /\ inChunkStreams[CHUNK_STREAM_ID_PROTOCOL] # Nil
    /\ inChunkStreams[CHUNK_STREAM_ID_PROTOCOL].currentMessage = Nil
    /\ inChunkStreams[CHUNK_STREAM_ID_PROTOCOL].lastHeader.MessageTypeId
          = MESSAGE_TYPE_PING
    /\ inChunkStreams[CHUNK_STREAM_ID_PROTOCOL].lastHeader.MessageLength = 2
    /\ ~crashed
    /\ inChunkSize = DEFAULT_CHUNK_SIZE

(* ------------------------------------------------------------------ *)
(* Outbound header formats                                              *)
(* ------------------------------------------------------------------ *)
\* sendLoop wrote a header: it is the last token of the wire.
HeaderWriteStep == sendPc = "header" /\ sendPc' = "payload"

ChunkMessage ==
    IF recvPc' = "enqueue" THEN rm'
    ELSE inChunkStreams'[rh.ChunkStreamId].currentMessage

\* receiveLoop put the completed message on inMessages.
EnqueueStep == recvPc = "enqueue" /\ recvPc' = "header"

\* C15: independent reassembly.  A header or a chunk for chunk stream A changes
\* the state of A only; the message worked on is A's own, a CONTINUATION
\* header goes on with A's message in progress, a chunk adds its bytes at the
\* end of that message; and a completed message goes to the end of the
\* dispatch queue before the next header is read.
C15_IndependentReassembly ==
    [][ /\ \A id \in ChunkStreamIds :
              inChunkStreams'[id] # inChunkStreams[id] =>
                  \/ HeaderStep /\ rraw'.ChunkStreamId = id
                  \/ ChunkStep /\ rh.ChunkStreamId = id
        /\ (HeaderStep /\ recvPc' = "chunk") =>
              /\ rm'.ChunkStreamId = rraw'.ChunkStreamId
              /\ ContinuationStep =>
                    rm' = inChunkStreams[rraw'.ChunkStreamId].currentMessage
        /\ ChunkStep =>
              /\ ChunkMessage.ChunkStreamId = rh.ChunkStreamId
              /\ GoesOn(rm, ChunkMessage)
              /\ Len(ChunkMessage.Buffer) =
                    Len(rm.Buffer) + ReadSize(rm, inChunkSize)
        /\ recvPc = "enqueue" =>
              \/ recvPc' = "enqueue" /\ rm' = rm
                    /\ (inMessages' = inMessages \/ DispatchStep)
              \/ EnqueueStep /\ inMessages' = Append(inMessages, rm)
      ]_vars

\* Two chunk streams hold half a message each, with different bytes.
C15_Witness ==
    /\ InProgress(CHUNK_STREAM_ID_PROTOCOL)
    /\ InProgress(CHUNK_STREAM_ID_USER_CONTROL)
    /\ inChunkStreams[CHUNK_STREAM_ID_PROTOCOL].currentMessage.Buffer = <<0, 0>>
    /\ inChunkStreams[CHUNK_STREAM_ID_USER_CONTROL].currentMessage.Buffer = <<0, 1>>
    /\ recvPc = "header"

(* ------------------------------------------------------------------ *)
(* Inbound queue run: the peer sends more one-byte audio messages than  *)
(* inMessages holds, numbered by their timestamps, over a fault-free    *)
(* connection; dispatchLoop takes them at any pace.                     *)
(* ------------------------------------------------------------------ *)
PeerHeaderInQ ==
    /\ nRead < MaxHeadersInQ
    /\ RecvHeader(ReadHeader(WriteHeader(
            MkHeader(HEADER_FORMAT_FULL, CHUNK_STREAM_ID_USER_CONTROL, nRead + 1,
                     1, MESSAGE_TYPE_AUDIO, 1))))
    /\ nRead' = nRead + 1
    /\ UNCHANGED wire

PeerChunkInQ ==
    /\ recvPc = "chunk"
    /\ RecvChunk(Payload(ReadSize(rm, inChunkSize), 0))
    /\ UNCHANGED <<wire, nRead>>

NextInQ ==
    \/ PeerHeaderInQ
    \/ PeerChunkInQ
    \/ RecvEnqueue
    \/ Dispatch

SpecInQ == Init /\ [][NextInQ]_vars

\* The messages on the dispatch queue are consecutive ones, up to the last one
\* completed: none missing, none twice.
QueuedInOrder ==
    /\ \A i \in 1..(Len(inMessages) - 1) :
          inMessages[i + 1].Timestamp = inMessages[i].Timestamp + 1
    /\ inMessages # <<>> =>
          inMessages[Len(inMessages)].Timestamp
              = IF recvPc = "header" THEN nRead ELSE nRead - 1

\* C16: inbound backpressure.  inMessages never holds more than 100 messages;
\* with 100 there, receiveLoop stays at its send and reads no header until
\* dispatchLoop takes one; every message completed goes on the queue once, and
\* only dispatchLoop takes messages off it.
C16_InboundBackpressure ==
    /\ [](Len(inMessages) <= InQueueCap /\ QueuedInOrder)
    /\ [][ /\ (recvPc = "enqueue" /\ Len(inMessages) = InQueueCap) =>
                 /\ recvPc' = "enqueue" /\ rm' = rm /\ nRead' = nRead
                 /\ inMessages' # inMessages => DispatchStep
           /\ (ChunkStep /\ Len(rm.Buffer) + ReadSize(rm, inChunkSize) = rm.Length) =>
                 /\ recvPc' = "enqueue"
                 /\ IsComplete(rm') /\ GoesOn(rm, rm')
           /\ recvPc = "enqueue" =>
                 \/ recvPc' = "enqueue" /\ rm' = rm
                 \/ EnqueueStep /\ inMessages' = Append(inMessages, rm)
           /\ inMessages' # inMessages =>
                 \/ DispatchStep
                 \/ EnqueueStep /\ inMessages' = Append(inMessages, rm)
         ]_vars

\* The queue holds 100 messages and receiveLoop waits to send the 101st.
C16_Witness ==
    /\ Len(inMessages) = InQueueCap
    /\ recvPc = "enqueue"
    /\ rm.Timestamp = InQueueCap + 1
    /\ inMessages[1].Timestamp = 1

====
